---- MODULE Spec2Model ----
(***************************************************************************)
(* Model of the assistant-stream Part Orchestrator                         *)
(* (AssistantStreamControllerImpl, createAssistantStream,                  *)
(* createAssistantStreamController) together with the collaborators it     *)
(* drives: the Stream Multiplexer (createMergeStream), the Index Generator *)
(* (Counter), the two Path Rewriters (PathAppendEncoder, PathMergeEncoder) *)
(* and the text / tool-call sub-controllers.  The Orchestrator and the     *)
(* driver are translated from the TypeScript source; the collaborators,    *)
(* whose source is not part of the tree, follow their written contract.    *)
(***************************************************************************)
EXTENDS Integers, Sequences, FiniteSets, TLC

\* ------------------------------------------------------------------ bounds
\* Number of controller calls (Orchestrator operations and calls on the
\* sub-controllers handed back to the caller) made in one run.
MaxOps == 2

\* Largest number of top-level parts an externally merged sequence holds.
MaxMergeParts == 2

\* ------------------------------------------------------------------ inputs
\* The text passed by the n-th controller call: every call passes its own text.
Delta(n) == "d" \o ToString(n)
ToolNames == {"x"}
SuppliedIds == {"call-1"}
\* A JSON object is a sequence of <<key, number>> members.
ArgObjects == {<< <<"a", 1>> >>}
ResultValues == {5}

\* Initial value of the Index Generator.
CounterInit == 0

VARIABLES
    append,          \* _append: the implicit append target
    counter,         \* _contentCounter.value
    closeSubscriber, \* _closeSubscriber is set
    sealed,          \* Multiplexer: seal() was called
    outState,        \* Multiplexer output: "open", "closed" or "failed"
    out,             \* chunks delivered to the output, in order
    streams,         \* every sub-sequence created, with its sub-controller
    idGen,           \* identifiers handed out by generateId
    notified,        \* times the close subscriber was invoked
    thrown,          \* the last controller call raised an error
    pc,              \* driver position: "sync", "async", "done"
    mode,            \* "callback" or "external" (createAssistantStreamController)
    settle,          \* how the driving computation ended
    raised,          \* the failure was re-raised to the caller / left unhandled
    closedAtSettle,  \* __internal_isClosed when the computation settled
    userClosed,      \* the computation called close() before it settled
    closeCalls,      \* close() calls received by the Orchestrator
    driverCloses,    \* close() calls made by the driver
    nOps,            \* controller calls made so far
    hist             \* the controller calls made, in order

vars == <<append, counter, closeSubscriber, sealed, outState, out, streams,
          idGen, notified, thrown, pc, mode, settle, raised, closedAtSettle,
          userClosed, closeCalls, driverCloses, nOps, hist>>

\* The controller object as one value, so that a method is a function of it.
Cur ==
    [append |-> append, counter |-> counter, closeSubscriber |-> closeSubscriber,
     sealed |-> sealed, outState |-> outState, out |-> out, streams |-> streams,
     idGen |-> idGen, notified |-> notified, closeCalls |-> closeCalls,
     thrown |-> FALSE]

Commit(c) ==
    /\ append' = c.append
    /\ counter' = c.counter
    /\ closeSubscriber' = c.closeSubscriber
    /\ sealed' = c.sealed
    /\ outState' = c.outState
    /\ out' = c.out
    /\ streams' = c.streams
    /\ idGen' = c.idGen
    /\ notified' = c.notified
    /\ closeCalls' = c.closeCalls
    /\ thrown' = c.thrown

NoAppend == [kind |-> "none", s |-> 0]

\* ------------------------------------------------------------------ chunks
PartStart(part, s, j) ==
    [type |-> "part-start", path |-> <<>>, src |-> s, part |-> part, inner |-> j]
TextDelta(d, s) == [type |-> "text-delta", path |-> <<>>, src |-> s, textDelta |-> d]
ArgsTextFinish(s) == [type |-> "tool-call-args-text-finish", path |-> <<>>, src |-> s]
ResultChunk(r, e, s) == [type |-> "result", path |-> <<>>, src |-> s, result |-> r, isError |-> e]
PartFinish(s) == [type |-> "part-finish", path |-> <<>>, src |-> s]
ErrorChunk == [type |-> "error", path |-> <<>>, src |-> 0, error |-> "e"]
DataChunk == [type |-> "data", path |-> <<>>, src |-> 0]
\* A part-start addressed below an existing part (non-empty path), as a caller
\* of enqueue may pass it.
NestedPartStart ==
    [type |-> "part-start", path |-> <<0>>, src |-> 0, part |-> [type |-> "text"], inner |-> 0]

\* ------------------------------------------------------- Index Generator
\* up(): returns the current value, then increments.
CounterUp(c) == [c EXCEPT !.counter = @ + 1]
CounterDrawn(c) == c.counter

\* ------------------------------------------------------------ Multiplexer
\* Contract: addStream is legal before sealing; enqueue forwards directly to the
\* output; neither is accepted once the output has failed or has closed; a call
\* that is not accepted raises an error in the caller.  The output closes once
\* seal() was called and no registered sub-sequence is pending.  isSealed() is
\* true once the output has ended (closed, or failed-closed), not merely once
\* seal() was called.
Pending(c) == {s \in 1..Len(c.streams) : c.streams[s].reg /\ ~c.streams[s].fin}

MergerIsSealed(c) == c.outState # "open"

MergerEnqueue(c, chunk) ==
    IF c.outState # "open"
    THEN [c EXCEPT !.thrown = TRUE]
    ELSE [c EXCEPT !.out = Append(@, chunk)]

MergerAddStream(c, s) ==
    IF c.sealed \/ c.outState # "open"
    THEN [c EXCEPT !.thrown = TRUE]
    ELSE [c EXCEPT !.streams[s].reg = TRUE]

MergerSeal(c) ==
    [c EXCEPT !.sealed = TRUE,
              !.outState = IF @ = "open" /\ Pending(c) = {} THEN "closed" ELSE @]

\* ---------------------------------------------------------- sub-controllers
\* A sub-sequence with its sub-controller.  buf holds the chunks produced and
\* not yet forwarded, in emission order.  A call on a closed sub-controller
\* produces no chunk; it is counted (closes, stale).
NewStream(kind, owner) ==
    [kind |-> kind, enc |-> "append", k |-> -1, buf |-> <<>>, ended |-> FALSE,
     fails |-> FALSE, reg |-> FALSE, fin |-> FALSE, map |-> <<>>,
     owner |-> owner, argsClosed |-> FALSE, closes |-> 0, stale |-> 0]

\* TextStreamController.append
TextCtlAppend(c, s, d) ==
    IF c.streams[s].ended
    THEN [c EXCEPT !.streams[s].stale = @ + 1]
    ELSE [c EXCEPT !.streams[s].buf = Append(@, TextDelta(d, s))]

\* TextStreamController.close / ToolCallStreamController.close
CtlClose(c, s) ==
    IF c.streams[s].ended
    THEN [c EXCEPT !.streams[s].closes = @ + 1]
    ELSE [c EXCEPT !.streams[s].closes = @ + 1,
                   !.streams[s].ended = TRUE,
                   !.streams[s].buf = Append(@, PartFinish(s))]

\* ToolCallStreamController.argsText.append
ArgsTextAppend(c, s, text) ==
    IF c.streams[s].ended \/ c.streams[s].argsClosed
    THEN [c EXCEPT !.streams[s].stale = @ + 1]
    ELSE [c EXCEPT !.streams[s].buf = Append(@, TextDelta(text, s))]

\* ToolCallStreamController.argsText.close
ArgsTextClose(c, s) ==
    IF c.streams[s].ended \/ c.streams[s].argsClosed
    THEN c
    ELSE [c EXCEPT !.streams[s].argsClosed = TRUE,
                   !.streams[s].buf = Append(@, ArgsTextFinish(s))]

\* ToolCallStreamController.setResult
SetResult(c, s, r, e) ==
    IF c.streams[s].ended
    THEN [c EXCEPT !.streams[s].stale = @ + 1]
    ELSE [c EXCEPT !.streams[s].buf = Append(@, ResultChunk(r, e, s))]

\* ------------------------------------------------------------ conversions
RECURSIVE Members(_)
Members(obj) ==
    IF Len(obj) = 0 THEN ""
    ELSE "\"" \o obj[1][1] \o "\":" \o ToString(obj[1][2])
         \o (IF Len(obj) > 1 THEN "," ELSE "") \o Members(Tail(obj))

\* JSON.stringify of an object
JSONStringify(obj) == "{" \o Members(obj) \o "}"

\* generateId(): a fresh identifier
GenerateId(c) == "gen-" \o ToString(c.idGen)

\* ------------------------------------------------------------ Orchestrator
\* __internal_isClosed
InternalIsClosed(c) == MergerIsSealed(c)

\* __internal_subscribeToClose
SubscribeToClose(c) == [c EXCEPT !.closeSubscriber = TRUE]

\* Variant of enqueue that advances the Index Generator for every part-start.
EnqueueCountsNested(c, chunk) ==
    LET c1 == MergerEnqueue(c, chunk)
    IN  IF c1.thrown THEN c1
        ELSE IF chunk.type = "part-start" THEN CounterUp(c1) ELSE c1

\* Variant of enqueue that swallows the Multiplexer's rejection.
EnqueueIgnoresRejection(c, chunk) ==
    LET c1 == MergerEnqueue(c, chunk)
    IN  IF c1.thrown THEN c
        ELSE IF chunk.type = "part-start" /\ Len(chunk.path) = 0
             THEN CounterUp(c1)
             ELSE c1

\* enqueue(chunk)
Enqueue(c, chunk) ==
    LET c1 == MergerEnqueue(c, chunk)
    IN  IF c1.thrown THEN c1
        ELSE IF chunk.type = "part-start" /\ Len(chunk.path) = 0
             THEN CounterUp(c1)
             ELSE c1

\* Variant of _addPart that leaves the append target open.
AddPartKeepsTarget(c, part, rec) ==
    LET s  == Len(c.streams) + 1
        c1 == [c EXCEPT !.streams = Append(@, rec), !.append = NoAppend]
        c2 == Enqueue(c1, PartStart(part, s, 0))
    IN  IF c2.thrown THEN c2
        ELSE MergerAddStream([c2 EXCEPT !.streams[s].k = c2.counter], s)

\* Variant of _addPart that writes the part-start into the part's own
\* sub-sequence, behind what the sub-sequence already holds, instead of
\* enqueueing it.
AddPartStartThroughStream(c, part, rec) ==
    LET c0 == IF c.append.kind # "none"
              THEN [CtlClose(c, c.append.s) EXCEPT !.append = NoAppend]
              ELSE c
        s  == Len(c0.streams) + 1
        c1 == [c0 EXCEPT !.streams =
                   Append(@, [rec EXCEPT !.buf = @ \o <<PartStart(part, s, 0)>>])]
        c2 == CounterUp(c1)
    IN  MergerAddStream([c2 EXCEPT !.streams[s].k = c2.counter], s)

\* Variant of _addPart that closes the append target but keeps the reference.
AddPartKeepsReference(c, part, rec) ==
    LET c0 == IF c.append.kind # "none" THEN CtlClose(c, c.append.s) ELSE c
        s  == Len(c0.streams) + 1
        c1 == [c0 EXCEPT !.streams = Append(@, rec)]
        c2 == Enqueue(c1, PartStart(part, s, 0))
    IN  IF c2.thrown THEN c2
        ELSE MergerAddStream([c2 EXCEPT !.streams[s].k = c2.counter], s)

\* _addPart(part, stream): rec is the stream / sub-controller pair the caller
\* has just created.
AddPart(c, part, rec) ==
    LET c0 == IF c.append.kind # "none"
              THEN [CtlClose(c, c.append.s) EXCEPT !.append = NoAppend]
              ELSE c
        s  == Len(c0.streams) + 1
        c1 == [c0 EXCEPT !.streams = Append(@, rec)]
        c2 == Enqueue(c1, PartStart(part, s, 0))
    IN  IF c2.thrown THEN c2
        ELSE MergerAddStream([c2 EXCEPT !.streams[s].k = c2.counter], s)

\* Variant of merge that wraps the sequence in the fixed rewriter.
MergeFixedRewriter(c, rec) ==
    LET s == Len(c.streams) + 1
    IN  MergerAddStream(
            [c EXCEPT !.streams = Append(@, [rec EXCEPT !.enc = "append",
                                                        !.k = c.counter])], s)

\* Variant of merge that does not hand the sequence to the Multiplexer.
MergeNotRegistered(c, rec) ==
    [c EXCEPT !.streams = Append(@, [rec EXCEPT !.enc = "merge"])]

\* merge(stream): rec is the external sequence
Merge(c, rec) ==
    LET s == Len(c.streams) + 1
    IN  MergerAddStream(
            [c EXCEPT !.streams = Append(@, [rec EXCEPT !.enc = "merge"])], s)

\* addTextPart(): the returned controller is the last stream created
AddTextPart(c) == AddPart(c, [type |-> "text"], NewStream("text", "caller"))

\* addReasoningPart()
AddReasoningPart(c) ==
    AddPart(c, [type |-> "reasoning"], NewStream("reasoning", "caller"))

\* Variant of appendText that starts a part on every call.
AppendTextAlwaysNew(c, d) ==
    LET c1 == AddTextPart(c)
        s  == Len(c1.streams)
    IN  IF c1.thrown THEN c1
        ELSE TextCtlAppend(
                 [c1 EXCEPT !.append = [kind |-> "text", s |-> s],
                            !.streams[s].owner = "append"], s, d)

\* appendText(textDelta)
AppendText(c, d) ==
    IF c.append.kind # "text"
    THEN LET c1 == AddTextPart(c)
             s  == Len(c1.streams)
         IN  IF c1.thrown THEN c1
             ELSE TextCtlAppend(
                      [c1 EXCEPT !.append = [kind |-> "text", s |-> s],
                                 !.streams[s].owner = "append"], s, d)
    ELSE TextCtlAppend(c, c.append.s, d)

\* appendReasoning(textDelta)
AppendReasoning(c, d) ==
    IF c.append.kind # "reasoning"
    THEN LET c1 == AddReasoningPart(c)
             s  == Len(c1.streams)
         IN  IF c1.thrown THEN c1
             ELSE TextCtlAppend(
                      [c1 EXCEPT !.append = [kind |-> "reasoning", s |-> s],
                                 !.streams[s].owner = "append"], s, d)
    ELSE TextCtlAppend(c, c.append.s, d)

\* Variant of addToolCallPart that sets the result before the arguments.
AddToolCallPartResultFirst(c, opt) ==
    LET toolCallId == IF opt.hasId THEN opt.toolCallId ELSE GenerateId(c)
        c0 == IF opt.hasId THEN c ELSE [c EXCEPT !.idGen = @ + 1]
        c1 == AddPart(c0, [type |-> "tool-call", toolName |-> opt.toolName,
                           toolCallId |-> toolCallId],
                      NewStream("tool-call", "caller"))
        s  == Len(c1.streams)
        c2 == IF opt.hasResult
              THEN SetResult(c1, s, opt.result, opt.isError)
              ELSE c1
        c3 == IF opt.hasArgs
              THEN ArgsTextClose(ArgsTextAppend(c2, s, JSONStringify(opt.args)), s)
              ELSE c2
    IN  IF c1.thrown THEN c1 ELSE c3

\* addToolCallPart(options), options already normalised from the bare-name form
AddToolCallPart(c, opt) ==
    LET toolCallId == IF opt.hasId THEN opt.toolCallId ELSE GenerateId(c)
        c0 == IF opt.hasId THEN c ELSE [c EXCEPT !.idGen = @ + 1]
        c1 == AddPart(c0, [type |-> "tool-call", toolName |-> opt.toolName,
                           toolCallId |-> toolCallId],
                      NewStream("tool-call", "caller"))
        s  == Len(c1.streams)
        c2 == IF opt.hasArgs
              THEN ArgsTextClose(ArgsTextAppend(c1, s, JSONStringify(opt.args)), s)
              ELSE c1
        c3 == IF opt.hasResult
              THEN SetResult(c2, s, opt.result, opt.isError)
              ELSE c2
    IN  IF c1.thrown THEN c1 ELSE c3

\* The single-chunk stream appendSource / appendFile build: part-finish, closed.
FinishedStream(kind, s) ==
    [NewStream(kind, "none") EXCEPT !.buf = <<PartFinish(s)>>, !.ended = TRUE]

\* appendSource(options)
AppendSource(c, options) ==
    AddPart(c, options, FinishedStream("source", Len(c.streams) + 1))

\* appendFile(options)
AppendFile(c, options) ==
    AddPart(c, options, FinishedStream("file", Len(c.streams) + 1))

\* Variant of close that seals the Multiplexer but leaves the append target's
\* sub-controller open.
CloseLeavesTarget(c) ==
    LET c1 == MergerSeal(c)
    IN  [c1 EXCEPT !.notified = IF c1.closeSubscriber THEN @ + 1 ELSE @,
                   !.closeCalls = @ + 1]

\* Variant of close that ends the append target but does not seal the
\* Multiplexer.
CloseWithoutSeal(c) ==
    LET c2 == IF c.append.kind # "none" THEN CtlClose(c, c.append.s) ELSE c
    IN  [c2 EXCEPT !.notified = IF c2.closeSubscriber THEN @ + 1 ELSE @,
                   !.closeCalls = @ + 1]

\* close()
Close(c) ==
    LET c1 == MergerSeal(c)
        c2 == IF c1.append.kind # "none" THEN CtlClose(c1, c1.append.s) ELSE c1
    IN  [c2 EXCEPT !.notified = IF c2.closeSubscriber THEN @ + 1 ELSE @,
                   !.closeCalls = @ + 1]

\* ------------------------------------------------------------------ driver
\* Variant of the synchronous catch block that does not close the stream.
DriverCatchSyncNoClose(c) ==
    IF ~InternalIsClosed(c) THEN Enqueue(c, ErrorChunk) ELSE c

\* createAssistantStream: the catch block of the synchronous call
DriverCatchSync(c) ==
    IF ~InternalIsClosed(c) THEN Close(Enqueue(c, ErrorChunk)) ELSE c

\* createAssistantStream: synchronous return without a promise
DriverReturn(c) == IF ~InternalIsClosed(c) THEN Close(c) ELSE c

\* runTask: the finally block
DriverFinally(c) == IF ~InternalIsClosed(c) THEN Close(c) ELSE c

\* Variant of runTask's failure path that closes before it enqueues the error.
DriverCatchAsyncCloseFirst(c) ==
    IF ~InternalIsClosed(c) THEN Enqueue(Close(c), ErrorChunk) ELSE c

\* runTask: the catch block, followed by the finally block
DriverCatchAsync(c) ==
    DriverFinally(IF ~InternalIsClosed(c) THEN Enqueue(c, ErrorChunk) ELSE c)

\* ----------------------------------------------------------- path rewriters
\* PathAppendEncoder(k): every path P becomes <<k>> \o P
PathAppend(k, chunk) == [chunk EXCEPT !.path = <<k>> \o @]

\* PathMergeEncoder: a root part-start keeps its path and is given the drawn
\* position; any other chunk has its first segment replaced through the map.
IsRootPartStart(chunk) == chunk.type = "part-start" /\ Len(chunk.path) = 0

PathMergeKnows(map, chunk) ==
    IF Len(chunk.path) = 0 THEN TRUE ELSE chunk.path[1] + 1 \in 1..Len(map)

PathMerge(map, chunk) ==
    IF Len(chunk.path) = 0 THEN chunk
    ELSE [chunk EXCEPT !.path = <<map[chunk.path[1] + 1]>> \o Tail(@)]

\* The externally produced sequence given to merge(): n top-level parts, all
\* started before any finishes; a failing one breaks off after its first chunk.
RECURSIVE MergeStarts(_, _, _)
MergeStarts(s, j, n) ==
    IF j >= n THEN <<>>
    ELSE <<PartStart([type |-> "text"], s, j)>> \o MergeStarts(s, j + 1, n)

RECURSIVE MergeFinishes(_, _, _)
MergeFinishes(s, j, n) ==
    IF j >= n THEN <<>>
    ELSE <<[PartFinish(s) EXCEPT !.path = <<j>>]>> \o MergeFinishes(s, j + 1, n)

ExternalSequence(s, n, failing) ==
    [NewStream("merge", "none") EXCEPT
        !.buf = IF failing THEN <<PartStart([type |-> "text"], s, 0)>>
                ELSE MergeStarts(s, 0, n) \o MergeFinishes(s, 0, n),
        !.ended = ~failing,
        !.fails = failing]

\* -------------------------------------------------------------------- Init
Init ==
    /\ append = NoAppend
    /\ counter = CounterInit
    /\ closeSubscriber = FALSE
    /\ sealed = FALSE
    /\ outState = "open"
    /\ out = <<>>
    /\ streams = <<>>
    /\ idGen = 0
    /\ notified = 0
    /\ thrown = FALSE
    /\ pc = "sync"
    /\ mode = "callback"
    /\ settle = "none"
    /\ raised = FALSE
    /\ closedAtSettle = FALSE
    /\ userClosed = FALSE
    /\ closeCalls = 0
    /\ driverCloses = 0
    /\ nOps = 0
    /\ hist = <<>>

driverVars == <<pc, mode, settle, raised, closedAtSettle, userClosed, driverCloses>>

\* A controller call by the driving computation (or by whoever holds the
\* controller): op is the method, c the controller after the call.
Call(op, d, c) ==
    /\ nOps < MaxOps
    /\ mode = "external" => pc # "sync"
    /\ Commit(c)
    /\ nOps' = nOps + 1
    /\ hist' = Append(hist, [op |-> op, d |-> d, s |-> c.append.s,
                             live |-> ~sealed /\ outState = "open",
                             n |-> Len(c.streams)])
    /\ UNCHANGED driverVars

DoAppendText ==
    \E d \in {Delta(nOps + 1)} : Call("appendText", d, AppendText(Cur, d))

DoAppendReasoning ==
    \E d \in {Delta(nOps + 1)} :
        Call("appendReasoning", d, AppendReasoning(Cur, d))

DoAddTextPart == Call("addTextPart", "", AddTextPart(Cur))

DoAddReasoningPart == Call("addReasoningPart", "", AddReasoningPart(Cur))

ToolCallOptions ==
    {[hasId |-> hi, toolCallId |-> id, toolName |-> tn, hasArgs |-> ha,
      args |-> a, hasResult |-> hr, result |-> r, isError |-> FALSE] :
        hi \in BOOLEAN, id \in SuppliedIds, tn \in ToolNames, ha \in BOOLEAN,
        a \in ArgObjects, hr \in BOOLEAN, r \in ResultValues}

DoAddToolCallPart ==
    \E opt \in ToolCallOptions : Call("addToolCallPart", opt, AddToolCallPart(Cur, opt))

DoAppendSource ==
    Call("appendSource", "",
         AppendSource(Cur, [type |-> "source", sourceType |-> "url",
                            id |-> "s1", url |-> "u"]))

DoAppendFile ==
    Call("appendFile", "",
         AppendFile(Cur, [type |-> "file", data |-> "d", mimeType |-> "m"]))

DoEnqueue ==
    \E chunk \in {PartStart([type |-> "text"], 0, 0), NestedPartStart, DataChunk} :
        Call("enqueue", chunk, Enqueue(Cur, chunk))

DoMerge ==
    \E n \in 1..MaxMergeParts, failing \in BOOLEAN :
        /\ failing => n = 1
        /\ Call("merge", "", Merge(Cur, ExternalSequence(Len(streams) + 1, n, failing)))

DoClose == Call("close", "", Close(Cur))

\* Calls on the sub-controllers returned by addTextPart / addReasoningPart /
\* addToolCallPart.
CallerStreams(kinds) ==
    {s \in 1..Len(streams) : streams[s].owner = "caller" /\ streams[s].kind \in kinds}

CallerAppend ==
    \E s \in CallerStreams({"text", "reasoning"}), d \in {Delta(nOps + 1)} :
        Call("ctl.append", d, TextCtlAppend(Cur, s, d))

CallerClose ==
    \E s \in CallerStreams({"text", "reasoning", "tool-call"}) :
        Call("ctl.close", "", CtlClose(Cur, s))

\* ------------------------------------------------------- Multiplexer steps
\* The Multiplexer runs between the turns of the computation, never inside the
\* synchronous call of the callback.
MergerRuns(s) ==
    /\ pc # "sync"
    /\ outState = "open"
    /\ s \in 1..Len(streams)
    /\ streams[s].reg
    /\ ~streams[s].fin

\* Forward the next chunk of sub-sequence s through its path rewriter.  The
\* dynamic rewriter draws a part's position as its part-start is forwarded, so
\* positions are drawn in the order the start chunks are observed.
Forward(s) ==
    /\ MergerRuns(s)
    /\ streams[s].buf # <<>>
    /\ LET chunk == Head(streams[s].buf)
           st == streams[s]
       IN  /\ IF st.enc = "merge" THEN PathMergeKnows(st.map, chunk) ELSE TRUE
           /\ IF st.enc = "merge" /\ IsRootPartStart(chunk)
              THEN /\ counter' = counter + 1
                   /\ streams' = [streams EXCEPT ![s].buf = Tail(@),
                                                 ![s].map = Append(@, CounterDrawn(Cur))]
                   /\ out' = Append(out, chunk)
              ELSE /\ counter' = counter
                   /\ streams' = [streams EXCEPT ![s].buf = Tail(@)]
                   /\ out' = Append(out, IF st.enc = "merge"
                                         THEN PathMerge(st.map, chunk)
                                         ELSE PathAppend(st.k, chunk))
    /\ UNCHANGED <<append, closeSubscriber, sealed, outState, idGen, notified,
                   thrown, closeCalls, nOps, hist>>
    /\ UNCHANGED driverVars

\* Sub-sequence s has ended: the pending count drops, and a sealed Multiplexer
\* with nothing pending closes the output.
SourceFinish(s) ==
    /\ MergerRuns(s)
    /\ streams[s].buf = <<>>
    /\ streams[s].ended
    /\ ~streams[s].fails
    /\ streams' = [streams EXCEPT ![s].fin = TRUE]
    /\ outState' = IF sealed /\ Pending(Cur) = {s} THEN "closed" ELSE outState
    /\ UNCHANGED <<append, counter, closeSubscriber, sealed, out, idGen,
                   notified, thrown, closeCalls, nOps, hist>>
    /\ UNCHANGED driverVars

\* Sub-sequence s fails: the output ends with a terminal failure.
SourceFail(s) ==
    /\ MergerRuns(s)
    /\ streams[s].buf = <<>>
    /\ streams[s].fails
    /\ outState' = "failed"
    /\ UNCHANGED <<append, counter, closeSubscriber, sealed, out, streams, idGen,
                   notified, thrown, closeCalls, nOps, hist>>
    /\ UNCHANGED driverVars

\* ------------------------------------------------------------ driver steps
Settle(how, c) ==
    /\ Commit(c)
    /\ pc' = "done"
    /\ settle' = how
    /\ closedAtSettle' = InternalIsClosed(Cur)
    /\ userClosed' = (closeCalls > 0)
    /\ driverCloses' = c.closeCalls - closeCalls
    /\ UNCHANGED <<mode, nOps, hist>>

\* createAssistantStreamController: the callback subscribes the promise's
\* resolve to close and returns the promise.
ControllerCallback ==
    /\ pc = "sync"
    /\ nOps = 0
    /\ Commit(SubscribeToClose(Cur))
    /\ pc' = "async"
    /\ mode' = "external"
    /\ UNCHANGED <<settle, raised, closedAtSettle, userClosed, driverCloses, nOps, hist>>

\* The callback throws.
SyncThrow ==
    /\ pc = "sync"
    /\ Settle("threw", DriverCatchSync(Cur))
    /\ raised' = TRUE

\* The callback returns no promise.
SyncReturn ==
    /\ pc = "sync"
    /\ Settle("returned", DriverReturn(Cur))
    /\ raised' = FALSE

\* The callback returns a promise.
ReturnPromise ==
    /\ pc = "sync"
    /\ pc' = "async"
    /\ UNCHANGED <<append, counter, closeSubscriber, sealed, outState, out,
                   streams, idGen, notified, thrown, closeCalls, nOps, hist, mode,
                   settle, raised, closedAtSettle, userClosed, driverCloses>>

\* The promise resolves; the external controller's promise resolves only
\* through the close subscriber.
Resolve ==
    /\ pc = "async"
    /\ mode = "external" => notified > 0
    /\ Settle("resolved", DriverFinally(Cur))
    /\ raised' = FALSE

\* The promise rejects.
Reject ==
    /\ pc = "async"
    /\ mode = "callback"
    /\ Settle("rejected", DriverCatchAsync(Cur))
    /\ raised' = TRUE

Next ==
    \/ DoAppendText
    \/ DoAppendReasoning
    \/ DoAddTextPart
    \/ DoAddReasoningPart
    \/ DoAddToolCallPart
    \/ DoAppendSource
    \/ DoAppendFile
    \/ DoEnqueue
    \/ DoMerge
    \/ DoClose
    \/ CallerAppend
    \/ CallerClose
    \/ \E s \in 1..Len(streams) : Forward(s)
    \/ \E s \in 1..Len(streams) : SourceFinish(s)
    \/ \E s \in 1..Len(streams) : SourceFail(s)
    \/ ControllerCallback
    \/ SyncThrow
    \/ SyncReturn
    \/ ReturnPromise
    \/ Resolve
    \/ Reject

Spec == Init /\ [][Next]_vars

\* The Multiplexer under fair scheduling of the sub-sequences: a sub-sequence
\* that can be forwarded, or whose end can be taken, is served eventually.
FairSpec ==
    /\ Spec
    /\ \A s \in 1..MaxOps : WF_vars(Forward(s)) /\ WF_vars(SourceFinish(s))

\* ================================================================== claims
\* Positions in the output of the chunks of a given type from sub-sequence s.
OutIdx(type, s) == {i \in 1..Len(out) : out[i].type = type /\ out[i].src = s}

\* The chunks of sub-sequence s delivered so far, its part-start excluded.
Delivered(s) == SelectSeq(out, LAMBDA ch : ch.src = s /\ ch.type # "part-start")

\* Everything sub-sequence s has produced: delivered, then still queued.
Produced(s) == Delivered(s) \o streams[s].buf

Types(seq) == [i \in 1..Len(seq) |-> seq[i].type]

TextOf(seq) ==
    LET ds == SelectSeq(seq, LAMBDA ch : ch.type = "text-delta")
    IN  [i \in 1..Len(ds) |-> ds[i].textDelta]

\* Two consecutive calls op1, op2, both made while the Multiplexer accepts input.
Consecutive(i, op1, op2) ==
    /\ hist[i].op = op1
    /\ hist[i + 1].op = op2
    /\ hist[i].live
    /\ hist[i + 1].live

\* The part-start of sub-sequence s is delivered once and before s's chunks.
StartedOnce(s) ==
    /\ Cardinality(OutIdx("part-start", s)) = 1
    /\ \A i \in OutIdx("part-start", s), j \in 1..Len(out) :
           (out[j].src = s /\ j # i) => i < j

\* C1: consecutive appendText calls (no other call between them, stream still
\* accepting input) address one text part: one text part-start chunk is in the
\* output, the second call starts no part, and the calls' texts are adjacent
\* deltas of the part, in call order, every delivered delta at that part's
\* position.
C1_OneTextPartPerRun ==
    \A i \in 1..(Len(hist) - 1) :
        Consecutive(i, "appendText", "appendText") =>
            LET s == hist[i].s
            IN  /\ hist[i + 1].s = s
                /\ hist[i + 1].n = hist[i].n
                /\ streams[s].kind = "text"
                /\ StartedOnce(s)
                /\ out[CHOOSE k \in OutIdx("part-start", s) : TRUE].part.type = "text"
                /\ LET tx == TextOf(Produced(s))
                   IN  \E k \in 1..(Len(tx) - 1) :
                           tx[k] = hist[i].d /\ tx[k + 1] = hist[i + 1].d
                /\ \A j \in OutIdx("text-delta", s) : out[j].path = <<streams[s].k>>

\* C1 witness: both deltas of a two-call run have reached the output.
C1_Witness ==
    /\ Len(hist) >= 2
    /\ Consecutive(1, "appendText", "appendText")
    /\ Cardinality(OutIdx("text-delta", hist[1].s)) = 2

\* C2 (as claimed): after appendText then appendReasoning (or the reverse), the
\* first part's part-finish is in the output before the second part's
\* part-start.
C2_FinishDeliveredBeforeNextStart ==
    \A i \in 1..(Len(hist) - 1) :
        (\/ Consecutive(i, "appendText", "appendReasoning")
         \/ Consecutive(i, "appendReasoning", "appendText")) =>
            LET s1 == hist[i].s
                s2 == hist[i + 1].s
            IN  /\ s1 # s2
                /\ \A j \in OutIdx("part-start", s2) :
                       \E f \in OutIdx("part-finish", s1) : f < j

\* C2 (amended): after appendText then appendReasoning (or the reverse) there
\* are two parts, and whenever the second part's part-start is in the output
\* the first part's sub-controller has been closed exactly once and its
\* part-finish has been produced as the last chunk of its sub-sequence
\* (delivered or still queued in the Multiplexer).
C2_FinishProducedBeforeNextStart ==
    \A i \in 1..(Len(hist) - 1) :
        (\/ Consecutive(i, "appendText", "appendReasoning")
         \/ Consecutive(i, "appendReasoning", "appendText")) =>
            LET s1 == hist[i].s
                s2 == hist[i + 1].s
            IN  /\ s1 # s2
                /\ StartedOnce(s1)
                /\ StartedOnce(s2)
                /\ streams[s1].ended
                /\ streams[s1].closes = 1
                /\ Produced(s1) # <<>>
                /\ Produced(s1)[Len(Produced(s1))].type = "part-finish"
                /\ Cardinality({j \in 1..Len(Produced(s1)) :
                                   Produced(s1)[j].type = "part-finish"}) = 1

\* C2 witness: the first part's part-finish is delivered after the second
\* part's part-start.
C2_Witness ==
    /\ Len(hist) >= 2
    /\ Consecutive(1, "appendText", "appendReasoning")
    /\ \E j \in OutIdx("part-start", hist[2].s) :
           \E f \in OutIdx("part-finish", hist[1].s) : j < f

\* The top-level parts that have been given a position: <<s, j>> is part j of
\* sub-sequence s (j = 0 for a part the Orchestrator started).
PositionedParts ==
    {p \in (1..Len(streams)) \X (0..MaxMergeParts) :
        IF streams[p[1]].enc = "append"
        THEN p[2] = 0 /\ streams[p[1]].k >= 0
        ELSE p[2] < Len(streams[p[1]].map)}

PositionOf(p) ==
    IF streams[p[1]].enc = "append" THEN streams[p[1]].k
    ELSE streams[p[1]].map[p[2] + 1]

\* C3: no two top-level parts are assigned the same position, whether started
\* by the Orchestrator or arriving through merge().
C3_PositionsPairwiseDistinct ==
    \A p, q \in PositionedParts : p # q => PositionOf(p) # PositionOf(q)

\* The output positions of the part-start chunks of merged sequences.
MergedStarts ==
    {i \in 1..Len(out) : out[i].type = "part-start" /\ out[i].src > 0
                         /\ streams[out[i].src].kind = "merge"}

MergedPosition(i) ==
    IF streams[out[i].src].enc = "append" THEN streams[out[i].src].k
    ELSE streams[out[i].src].map[out[i].inner + 1]

\* C4: the positions assigned to the parts of merged sequences are strictly
\* increasing in the order their part-start chunks appear in the output.
C4_MergedPositionsIncrease ==
    \A i, j \in MergedStarts : i < j => MergedPosition(i) < MergedPosition(j)

\* C4 witness: two merged sequences of two parts each, their four part-starts
\* delivered alternately.
C4_Witness ==
    /\ Len(out) >= 4
    /\ {1, 2, 3, 4} \subseteq MergedStarts
    /\ out[1].src = out[3].src
    /\ out[2].src = out[4].src
    /\ out[1].src # out[2].src

\* C5: addToolCallPart with toolName, args and result yields a tool-call
\* part-start carrying the supplied identifier, or a synthesized one when none
\* is supplied, then the argument-text delta equal to the serialized args, the
\* argument-text finish and the result chunk, in this order.
C5_ToolCallChunkOrder ==
    \A i \in 1..Len(hist) :
        (hist[i].op = "addToolCallPart" /\ hist[i].live
            /\ hist[i].d.hasArgs /\ hist[i].d.hasResult) =>
            LET s == hist[i].n
                p == Produced(s)
                start == out[CHOOSE k \in OutIdx("part-start", s) : TRUE].part
            IN  /\ StartedOnce(s)
                /\ start.type = "tool-call"
                /\ start.toolName = hist[i].d.toolName
                /\ IF hist[i].d.hasId THEN start.toolCallId = hist[i].d.toolCallId
                   ELSE start.toolCallId \notin SuppliedIds
                /\ Len(p) >= 3
                /\ Types(SubSeq(p, 1, 3))
                     = <<"text-delta", "tool-call-args-text-finish", "result">>
                /\ hist[i].d.args = << <<"a", 1>> >> => p[1].textDelta = "{\"a\":1}"
                /\ p[3].result = hist[i].d.result
                /\ \A j \in 1..Len(Delivered(s)) :
                       Delivered(s)[j].path = <<streams[s].k>>

\* C5 witness: a tool call without a supplied identifier whose four chunks have
\* all reached the output.
C5_Witness ==
    /\ Len(hist) >= 1
    /\ hist[1].op = "addToolCallPart"
    /\ ~hist[1].d.hasId /\ hist[1].d.hasArgs /\ hist[1].d.hasResult
    /\ Len(Delivered(hist[1].n)) = 3
    /\ Cardinality(OutIdx("part-start", hist[1].n)) = 1

\* C6: close() is idempotent: however often it is called, the close subscriber
\* is notified at most once and the append target's sub-controller is closed at
\* most once.
C6_CloseIdempotent ==
    /\ notified <= 1
    /\ \A s \in 1..Len(streams) :
           streams[s].owner = "append" => streams[s].closes <= 1

\* Positions in the output of the error chunks.
ErrorIdx == {i \in 1..Len(out) : out[i].type = "error"}

\* C7: a synchronous failure of the driving computation is re-raised; if the
\* stream was not closed, exactly one error chunk at the root path is enqueued
\* and the driver closes the stream; if it was closed, no error chunk is
\* enqueued and the driver does not close.
C7_SyncFailure ==
    settle = "threw" =>
        /\ raised
        /\ IF closedAtSettle
           THEN ErrorIdx = {} /\ driverCloses = 0
           ELSE /\ Cardinality(ErrorIdx) = 1
                /\ \A i \in ErrorIdx : out[i].path = <<>>
                /\ sealed
                /\ driverCloses = 1

\* C7 witness: the computation started a part, then threw while the stream was
\* open.
C7_Witness ==
    /\ settle = "threw"
    /\ ~closedAtSettle
    /\ Len(streams) >= 1
    /\ ErrorIdx # {}

\* C8: when the deferred result rejects while the stream is not closed, exactly
\* one error chunk at the root path is in the output, the driver then closes the
\* stream once, and the rejection is raised.
C8_AsyncFailure ==
    (settle = "rejected" /\ ~closedAtSettle) =>
        /\ raised
        /\ Cardinality(ErrorIdx) = 1
        /\ \A i \in ErrorIdx : out[i].path = <<>>
        /\ sealed
        /\ driverCloses = 1

\* C8 witness: the deferred result rejected with nothing pending, so the close
\* that follows the error chunk closed the output at once.
C8_Witness ==
    /\ settle = "rejected"
    /\ ~closedAtSettle
    /\ outState = "closed"
    /\ ErrorIdx # {}
    /\ out[Len(out)].type = "error"

\* C9: on successful completion the driver calls close() exactly when the
\* computation has not called close() itself.
C9_DriverClosesUnlessClosedByComputation ==
    settle \in {"returned", "resolved"} =>
        /\ driverCloses <= 1
        /\ (driverCloses = 1) <=> ~userClosed

\* C10: once the output has ended after a failure (a failure of the
\* computation raised while the stream was not closed, or a failed
\* sub-sequence), the consumer has seen either exactly one root-path error
\* chunk, as the last chunk of a normally closed output, or a terminal failure
\* of the output without any error chunk: not both and not neither.
C10_ErrorChunkXorTerminalFailure ==
    (((raised /\ ~closedAtSettle) \/ outState = "failed") /\ outState # "open") =>
        \/ /\ outState = "closed"
           /\ Cardinality(ErrorIdx) = 1
           /\ out[Len(out)].type = "error"
           /\ out[Len(out)].path = <<>>
        \/ /\ outState = "failed"
           /\ ErrorIdx = {}

\* The chunks of sub-sequence s that reached the output through the
\* Multiplexer's forwarding (an Orchestrator part's part-start is enqueued
\* directly and is no chunk of its sub-sequence).
Forwarded(s) ==
    SelectSeq(out, LAMBDA ch : ch.src = s /\ (streams[s].enc = "merge"
                                                \/ ch.type # "part-start"))

\* A chunk as its producer wrote it, without the path rewriting: type, the
\* index of the part it addresses inside its sequence, and its text.
\* delivered says whether the chunk is read from the output or from the queue.
ChunkKey(s, ch, delivered) ==
    <<ch.type,
      IF streams[s].enc # "merge" THEN 0
      ELSE IF ch.type = "part-start" THEN ch.inner
      ELSE IF ~delivered THEN ch.path[1]
      ELSE LET js == {j \in 0..(Len(streams[s].map) - 1) :
                          streams[s].map[j + 1] = ch.path[1]}
           IN  IF js = {} THEN -1 ELSE CHOOSE j \in js : TRUE,
      IF ch.type = "text-delta" THEN ch.textDelta ELSE "">>

\* Production of sub-sequence s: what was forwarded, then what is queued.
ProductionKeys(s) ==
    LET f == Forwarded(s)
        b == streams[s].buf
    IN  [i \in 1..Len(f) |-> ChunkKey(s, f[i], TRUE)]
            \o [i \in 1..Len(b) |-> ChunkKey(s, b[i], FALSE)]

IsPrefix(p, q) == Len(p) <= Len(q) /\ SubSeq(q, 1, Len(p)) = p

\* The sub-sequences created by calls made while the Multiplexer was accepting
\* registrations.
CreatedLive ==
    {hist[i].n : i \in {j \in 1..Len(hist) :
        hist[j].live /\ hist[j].n > (IF j = 1 THEN 0 ELSE hist[j - 1].n)}}

C11_Registered == \A s \in CreatedLive : streams[s].reg

C11_NothingLeftBehind ==
    outState = "closed" => \A s \in CreatedLive : streams[s].buf = <<>>

C11_OrderKept ==
    \A s \in 1..Len(streams) : IsPrefix(ProductionKeys(s), ProductionKeys(s)')

\* C11: every sub-sequence created before sealing is registered, each step
\* keeps what a sub-sequence has produced (forwarded chunks followed by queued
\* ones) as a prefix of its later production, so that its chunks reach the
\* output in its own order, once each, and a closed output has left no chunk
\* of a registered sub-sequence behind.
C11_SubSequenceOrderPreserved ==
    /\ [](C11_Registered /\ C11_NothingLeftBehind)
    /\ [][C11_OrderKept]_vars

\* C11 witness: two registered sub-sequences interleaved in the output, chunks
\* of the first delivered before and after a chunk of the second.
C11_Witness ==
    /\ Len(streams) >= 2
    /\ \E i, j, k \in 1..Len(out) :
           /\ i < j /\ j < k
           /\ out[i].src = 1 /\ out[i].type # "part-start"
           /\ out[j].src = 2 /\ out[j].type # "part-start"
           /\ out[k].src = 1 /\ out[k].type # "part-start"

\* C12: the output is closed only when close() has sealed the Multiplexer and
\* no registered sub-sequence is unfinished; close() always seals, and a sealed
\* Multiplexer with nothing pending has already ended the output (at the seal
\* itself when nothing was pending then).
C12_ClosedOnlyWhenSealedAndDrained ==
    /\ outState = "closed" =>
           /\ sealed
           /\ Pending(Cur) = {}
           /\ \A s \in 1..Len(streams) :
                  streams[s].reg => streams[s].fin /\ streams[s].buf = <<>>
    /\ closeCalls > 0 => sealed
    /\ (sealed /\ Pending(Cur) = {}) => outState # "open"

\* C12 witness: the output closed after waiting for a registered sub-sequence
\* whose chunks it delivered.
C12_Witness ==
    /\ outState = "closed"
    /\ \E s \in 1..Len(streams) : streams[s].reg /\ Forwarded(s) # <<>>

\* The calls that hand a chunk or a sub-sequence to the Multiplexer whatever
\* the append target is.
MergerCalls ==
    {"enqueue", "merge", "addTextPart", "addReasoningPart", "addToolCallPart",
     "appendSource", "appendFile"}

C13_FailureHasCause ==
    outState = "failed" =>
        \E s \in 1..Len(streams) :
            streams[s].reg /\ streams[s].fails /\ streams[s].buf = <<>>

C13_FailureIsFinal ==
    /\ outState' = "failed" => out' = out
    /\ outState = "failed" =>
           /\ outState' = "failed"
           /\ counter' = counter
           /\ Len(streams') >= Len(streams)
           /\ \A s \in 1..Len(streams') :
                  streams'[s].reg = (s <= Len(streams) /\ streams[s].reg)
           /\ (Len(hist') > Len(hist) /\ hist'[Len(hist')].op \in MergerCalls)
                  => thrown'

\* C13: the output fails only through a registered sub-sequence that failed;
\* the step into failure and every later step leave the delivered chunks as
\* they are, the failure is final, no sub-sequence is registered after it and
\* every later enqueue or part-creating or merge call is rejected.
C13_TerminalFailure ==
    /\ []C13_FailureHasCause
    /\ [][C13_FailureIsFinal]_vars

\* C13 witness: the output failed with a chunk delivered, and a call made
\* after the failure was rejected.
C13_Witness ==
    /\ outState = "failed"
    /\ ~sealed
    /\ out # <<>>
    /\ hist # <<>>
    /\ ~hist[Len(hist)].live
    /\ hist[Len(hist)].op \in MergerCalls
    /\ thrown

\* The operations that start a part explicitly.
ExplicitPartOps ==
    {"addTextPart", "addReasoningPart", "addToolCallPart", "appendSource",
     "appendFile"}

\* The append target before call i (calls are the only steps that change it).
TargetBefore(i) == IF i = 1 THEN 0 ELSE hist[i - 1].s

\* C14: after every explicit part-creating call the append target is absent,
\* and the target present before the call has had its sub-controller closed;
\* an appendText / appendReasoning that follows while the Multiplexer accepts
\* input starts a new part and makes it the target.
C14_ExplicitPartClosesTarget ==
    \A i \in 1..Len(hist) :
        hist[i].op \in ExplicitPartOps =>
            /\ hist[i].s = 0
            /\ TargetBefore(i) # 0 =>
                   /\ streams[TargetBefore(i)].ended
                   /\ streams[TargetBefore(i)].closes >= 1
            /\ (i < Len(hist) /\ hist[i + 1].live
                    /\ hist[i + 1].op \in {"appendText", "appendReasoning"}) =>
                   /\ hist[i + 1].n = hist[i].n + 1
                   /\ hist[i + 1].s = hist[i + 1].n

\* C14 witness: an explicit part-creating call made while an append target
\* was present, the closed target's part-finish delivered.
C14_Witness ==
    /\ Len(hist) = 2
    /\ hist[1].op \in {"appendText", "appendReasoning"}
    /\ hist[1].s # 0
    /\ hist[2].op \in ExplicitPartOps
    /\ hist[2].live
    /\ OutIdx("part-finish", hist[1].s) # {}

\* The step is a call of the Orchestrator's enqueue.
IsEnqueueCall == Len(hist') = Len(hist) + 1 /\ hist'[Len(hist')].op = "enqueue"

C15_EnqueueEffect ==
    IsEnqueueCall =>
        LET chunk == hist'[Len(hist')].d
        IN  /\ append' = append
            /\ streams' = streams
            /\ IF outState = "open"
               THEN /\ ~thrown'
                    /\ Len(out') = Len(out) + 1
                    /\ SubSeq(out', 1, Len(out)) = out
                    /\ out'[Len(out')].type = chunk.type
                    /\ out'[Len(out')].path = chunk.path
                    /\ counter' = IF chunk.type = "part-start" /\ chunk.path = <<>>
                                  THEN counter + 1 ELSE counter
               ELSE /\ thrown'
                    /\ out' = out
                    /\ counter' = counter

\* C15: a call of enqueue the Multiplexer accepts puts the chunk at the end of
\* the output and advances the Index Generator by one exactly when the chunk is
\* a part-start with empty path; a rejected call changes neither; the append
\* target and the sub-sequences are unchanged in all cases.
C15_EnqueueFrame == [][C15_EnqueueEffect]_vars

\* C15 witness: enqueue was called with a top-level part-start and with a
\* nested part-start, both are in the output and the Index Generator advanced
\* once.
C15_Witness ==
    /\ Len(hist) = 2
    /\ hist[1].op = "enqueue" /\ hist[2].op = "enqueue"
    /\ Len(out) = 2
    /\ out[1].type = "part-start" /\ out[2].type = "part-start"
    /\ out[1].path # out[2].path
    /\ counter = CounterInit + 1

\* The value the Index Generator's up() returned for the top-level part-start
\* at output position i: the initial value plus the top-level part-starts
\* delivered before it (every draw delivers one).
DrawnAt(i) ==
    CounterInit + Cardinality({j \in 1..(i - 1) :
                                  out[j].type = "part-start" /\ out[j].path = <<>>})

\* C16 (as claimed): the fixed position of every part the Orchestrator started
\* is the value up() returned when its part-start was enqueued, and the part's
\* delivered chunks are addressed under that value.
C16_FixedPositionIsDrawnValue ==
    \A s \in 1..Len(streams) :
        (streams[s].enc = "append" /\ streams[s].k >= 0) =>
            \A i \in OutIdx("part-start", s) :
                /\ streams[s].k = DrawnAt(i)
                /\ \A j \in 1..Len(out) :
                       (out[j].src = s /\ out[j].type # "part-start") =>
                           out[j].path = <<DrawnAt(i)>>

\* C17 (as claimed): whenever the append target is present its sub-controller
\* is not closed, and no appendText / appendReasoning delta was handed to a
\* closed sub-controller.
C17_AppendTargetNeverStale ==
    /\ append.kind # "none" => ~streams[append.s].ended
    /\ \A s \in 1..Len(streams) :
           streams[s].owner = "append" => streams[s].stale = 0

\* The sub-sequences of the parts the Orchestrator started.
OrchestratorParts == {s \in 1..Len(streams) : streams[s].kind # "merge"}

\* C18: for every part the Orchestrator started, the output holds at most one
\* part-start of the part, every other delivered chunk of the part comes after
\* it, and the part's sub-sequence is registered only with the part-start
\* already in the output, so no scheduling of the Multiplexer can deliver a
\* chunk of the part first.
C18_PartStartFirst ==
    \A s \in OrchestratorParts :
        /\ Cardinality(OutIdx("part-start", s)) <= 1
        /\ \A j \in 1..Len(out) :
               (out[j].src = s /\ out[j].type # "part-start") =>
                   \E i \in OutIdx("part-start", s) : i < j
        /\ streams[s].reg => OutIdx("part-start", s) # {}

\* C18 witness: two parts delivered in full, a chunk of the first one after
\* the second one's part-start.
C18_Witness ==
    /\ Cardinality(OrchestratorParts) = 2
    /\ \A s \in OrchestratorParts :
           /\ OutIdx("part-start", s) # {}
           /\ OutIdx("part-finish", s) # {}
    /\ \E i \in OutIdx("part-start", 2), j \in 1..Len(out) :
           out[j].src = 1 /\ out[j].type # "part-start" /\ i < j

\* C19 (as claimed): every part-start a part-creating operation has put into
\* the output belongs to a sub-sequence registered with the Multiplexer.
C19_PartStartHasRegisteredSubSequence ==
    \A s \in OrchestratorParts : OutIdx("part-start", s) # {} => streams[s].reg

\* close() was called, the computation has handed control back, and every
\* registered sub-sequence that is not the Orchestrator's own append target
\* (parts whose sub-controller the caller holds, merged sequences) has ended.
C20_CallerDone ==
    /\ closeCalls > 0
    /\ pc # "sync"
    /\ \A s \in 1..Len(streams) :
           (streams[s].reg /\ streams[s].owner # "append") => streams[s].ended

C20_TargetFinishedByClose ==
    closeCalls > 0 =>
        \A s \in 1..Len(streams) :
            (streams[s].reg /\ streams[s].owner = "append") => streams[s].ended

\* C20: once close() was called every part started for the append target has
\* been ended by the Orchestrator, and under fair scheduling of the
\* sub-sequences, from the moment the caller's sub-controllers are closed and
\* the merged sequences have ended, the output eventually closes.
C20_OutputEventuallyCloses ==
    /\ []C20_TargetFinishedByClose
    /\ C20_CallerDone ~> (outState = "closed")

\* C20 witness: the output closed after close() had been called with an append
\* target open, its part delivered to the end, beside a merged sequence.
C20_Witness ==
    /\ outState = "closed"
    /\ closeCalls > 0
    /\ append.kind # "none"
    /\ OutIdx("part-finish", append.s) # {}
    /\ \E s \in 1..Len(streams) :
           streams[s].kind = "merge" /\ streams[s].fin

====
